---- MODULE Spec2Model ----
(***************************************************************************)
(* State-machine model of the SendBird API server (src/server.js) and its  *)
(* upstream client (src/unnamed/part_000, required by server.js as         *)
(* ./sendbird-client).                                                     *)
(*                                                                         *)
(* The process boots once (the SendBirdClient constructor, then            *)
(* app.listen), then serves inbound HTTP requests.  A request is processed *)
(* in up to three steps of the event loop: the synchronous part of the     *)
(* Express pipeline up to the first await (Handle), the settling of the    *)
(* outbound axios call by the network (UpstreamSettles), and the           *)
(* continuation of the async route handler after the await (Resume).       *)
(*                                                                         *)
(* JS values: an optional value (a possibly undefined one) is a sequence   *)
(* of length 0 or 1; a JSON object is a record whose domain is exactly its *)
(* keys; a path segment and a path parameter are sequences of characters,  *)
(* so that percent-decoding and percent-encoding are computed.             *)
(***************************************************************************)
EXTENDS Integers, Sequences, FiniteSets, TLC

\* Number of inbound requests a run serves (they may overlap in time).
NumReqs == 2

Reqs == 1..NumReqs

VARIABLES
    processEnv,      \* process.env after dotenv: the two SENDBIRD_* variables
    proc,            \* "start" | "exited" | "listening"
    sendbirdClient,  \* the module-level client: None until constructed
    req,             \* req[r]: None, or Some(the inbound request r)
    pc,              \* pc[r]: "idle" | "awaiting" | "settled" | "done"
    calls,           \* calls[r]: the outbound client.post calls issued for r
    upstream,        \* upstream[r]: None, or Some(outcome of r's awaited call)
    responses        \* responses[r]: the responses written for r, in order

vars == <<processEnv, proc, sendbirdClient, req, pc, calls, upstream, responses>>

----------------------------------------------------------------------------
\* JavaScript values

None == <<>>

Some(v) == <<v>>

\* !x for x a string or undefined: undefined and "" are falsy.
Falsy(opt) ==
    opt = None \/ opt[1] = ""

\* `${x}` in a template literal.
TemplateStr(opt) ==
    IF opt = None THEN "undefined" ELSE opt[1]

\* The text of a sequence of characters.
RECURSIVE Join(_)
Join(s) ==
    IF s = <<>> THEN "" ELSE Head(s) \o Join(Tail(s))

\* obj.key of a JSON object: undefined when the key is not there.
Prop(obj, key) ==
    IF key \in DOMAIN obj THEN Some(obj[key]) ELSE None

----------------------------------------------------------------------------
\* SendBirdClient (src/unnamed/part_000)

\* if (!this.applicationId || !this.apiToken)
MissingCredentialsAnd(applicationId, apiToken) ==
    Falsy(applicationId) /\ Falsy(apiToken)

MissingCredentials(applicationId, apiToken) ==
    Falsy(applicationId) \/ Falsy(apiToken)

\* new SendBirdClient(): throws, or yields the instance holding the axios
\* configuration (baseURL and the two fixed headers).
SendBirdClient(environment) ==
    LET applicationId == environment.SENDBIRD_APPLICATION_ID
        apiToken == environment.SENDBIRD_API_TOKEN
        baseURL == "https://api-" \o TemplateStr(applicationId) \o ".sendbird.com"
    IN  IF MissingCredentials(applicationId, apiToken)
        THEN [threw |-> TRUE,
              message |-> "SENDBIRD_APPLICATION_ID and SENDBIRD_API_TOKEN must be set in environment variables",
              instance |-> None]
        ELSE [threw |-> FALSE,
              message |-> "",
              instance |-> Some([applicationId |-> applicationId[1],
                                 apiToken |-> apiToken[1],
                                 baseURL |-> baseURL,
                                 headers |-> [Api_Token |-> apiToken[1],
                                              Content_Type |-> "application/json"]])]

\* encodeURIComponent on the characters the model's user ids are made of:
\* letters and digits stay, every other character becomes %XX.
EncodeChar(c) ==
    CASE c = " " -> <<"%", "2", "0">>
      [] c = "\"" -> <<"%", "2", "2">>
      [] c = "<NUL>" -> <<"%", "0", "0">>
      [] c = "<STX>" -> <<"%", "0", "2">>
      [] c = "%" -> <<"%", "2", "5">>
      [] OTHER -> <<c>>

RECURSIVE encodeURIComponent(_)
encodeURIComponent(s) ==
    IF s = <<>> THEN <<>> ELSE EncodeChar(Head(s)) \o encodeURIComponent(Tail(s))

\* this.client.post(url, data): one outbound call, carrying the instance's
\* configuration.
ClientPost(client, url, data) ==
    [baseURL |-> client.baseURL, headers |-> client.headers,
     method |-> "POST", url |-> url, data |-> data]

\* getUserToken(userId): the calls it issues (one; there is no retry loop).
getUserTokenTwice(client, userId) ==
    LET call == ClientPost(client, "/v3/users/" \o Join(encodeURIComponent(userId)) \o "/token", <<>>)
    IN  <<call, call>>

getUserToken(client, userId) ==
    <<ClientPost(client, "/v3/users/" \o Join(encodeURIComponent(userId)) \o "/token", <<>>)>>

\* createUser(userData): the calls it issues (one), the payload forwarded as is.
createUser(client, userData) ==
    <<ClientPost(client, "/v3/users", userData)>>

----------------------------------------------------------------------------
\* The Express pipeline (src/server.js), in registration order

\* express.json(): a body that does not parse is an error passed to next();
\* otherwise req.body is the parsed object, or {} when there was none.
ExpressJson(body) ==
    IF body.kind = "malformed"
    THEN [threw |-> TRUE,
          error |-> [message |-> "Unexpected token } in JSON at position 1", status |-> 400],
          body |-> <<>>]
    ELSE [threw |-> FALSE,
          error |-> [message |-> "", status |-> 0],
          body |-> IF body.kind = "json" THEN body.value ELSE <<>>]

\* req.originalUrl
RECURSIVE originalUrl(_)
originalUrl(path) ==
    IF path = <<>> THEN "" ELSE "/" \o Join(Head(path)) \o originalUrl(Tail(path))

\* The percent-escapes of the model's alphabet and the characters they name.
HexDigits == {"0", "2"}

PctChar(h1, h2) ==
    CASE h1 = "2" /\ h2 = "0" -> " "
      [] h1 = "2" /\ h2 = "2" -> "\""
      [] h1 = "0" /\ h2 = "0" -> "<NUL>"
      [] h1 = "0" /\ h2 = "2" -> "<STX>"

\* decodeURIComponent, as the router applies it to a path parameter: a "%"
\* that does not start an escape makes it throw (URIError).
RECURSIVE decodeURIComponent(_)
decodeURIComponent(s) ==
    IF s = <<>> THEN [threw |-> FALSE, value |-> <<>>]
    ELSE IF Head(s) = "%"
    THEN IF Len(s) >= 3 /\ s[2] \in HexDigits /\ s[3] \in HexDigits
         THEN LET rest == decodeURIComponent(SubSeq(s, 4, Len(s)))
              IN  IF rest.threw THEN rest
                  ELSE [threw |-> FALSE, value |-> <<PctChar(s[2], s[3])>> \o rest.value]
         ELSE [threw |-> TRUE, value |-> <<>>]
    ELSE LET rest == decodeURIComponent(Tail(s))
         IN  IF rest.threw THEN rest
             ELSE [threw |-> FALSE, value |-> <<Head(s)>> \o rest.value]

\* The parameter as the token handler reads it (decoded by the router); the
\* faulty variant keeps it encoded.
ParamValueRaw(segment) ==
    [threw |-> FALSE, value |-> segment]

ParamValue(segment) ==
    decodeURIComponent(segment)

\* app.use('/api-docs', ...): any method, the path's first segment.
MatchApiDocs(q) ==
    Len(q.path) >= 1 /\ q.path[1] = <<"api-docs">>

\* app.get('/health', ...)
MatchHealth(q) ==
    q.method = "GET" /\ q.path = << <<"health">> >>

\* app.get('/api/users/:userId/token', ...): a named parameter matches one
\* or more characters other than "/", so an empty segment does not match.
MatchTokenRoute(q) ==
    /\ q.method = "GET"
    /\ Len(q.path) = 4
    /\ q.path[1] = <<"api">>
    /\ q.path[2] = <<"users">>
    /\ q.path[3] # <<>>
    /\ q.path[4] = <<"token">>

\* app.post('/api/users', ...)
MatchCreateRoute(q) ==
    q.method = "POST" /\ q.path = << <<"api">>, <<"users">> >>

\* res.status(status).json(body)
Json(status, body) ==
    [status |-> status, body |-> body]

\* The Swagger UI page (not JSON).
ApiDocsHandler ==
    [status |-> 200, body |-> [html |-> "swagger-ui"]]

\* GET /health; the timestamp is the time of the call.
HealthHandler ==
    Json(200, [status |-> "OK", timestamp |-> "new Date().toISOString()",
               service |-> "SendBird API Server"])

\* error.response?.status || 500
statusCodeAlways500(error) ==
    500

statusCode(error) ==
    IF error.response # None /\ error.response[1].status # 0
    THEN error.response[1].status
    ELSE 500

\* error.response?.data?.message || error.message
errorMessageLocal(error) ==
    error.message

errorMessage(error) ==
    LET upstreamMessage ==
            IF error.response = None THEN None
            ELSE Prop(error.response[1].data, "message")
    IN  IF Falsy(upstreamMessage) THEN error.message ELSE upstreamMessage[1]

\* GET /api/users/:userId/token up to the await: the validation branch
\* returns; otherwise the one client call is issued.
TokenRouteBegin(client, userId) ==
    IF userId = <<>>
    THEN [responses |-> <<Json(400, [success |-> FALSE,
                                     error |-> "User ID is required",
                                     message |-> "Please provide a valid user ID"])>>,
          calls |-> <<>>]
    ELSE [responses |-> <<>>, calls |-> getUserToken(client, userId)]

\* ... the rest of its try block,
TokenRouteThen(userId, tokenData) ==
    Json(200, [success |-> TRUE,
               data |-> tokenData,
               message |-> "Token retrieved successfully for user: " \o Join(userId)])

\* ... and its catch block.
TokenRouteCatch(error) ==
    Json(statusCode(error), [success |-> FALSE,
                             error |-> errorMessage(error),
                             message |-> "Failed to get user token"])

\* The handler after the await: the awaited call returned or threw.
TokenRouteResumeRethrows(userId, outcome) ==
    IF outcome.threw THEN <<>> ELSE <<TokenRouteThen(userId, outcome.value)>>

TokenRouteResume(userId, outcome) ==
    IF outcome.threw
    THEN <<TokenRouteCatch(outcome.value)>>
    ELSE <<TokenRouteThen(userId, outcome.value)>>

\* if (!userData.user_id); the faulty variant tests only for a missing key.
InvalidUserDataMissingOnly(userData) ==
    Prop(userData, "user_id") = None

InvalidUserData(userData) ==
    Falsy(Prop(userData, "user_id"))

\* POST /api/users up to the await.
CreateRouteBegin(client, userData) ==
    IF InvalidUserData(userData)
    THEN [responses |-> <<Json(400, [success |-> FALSE,
                                     error |-> "user_id is required",
                                     message |-> "Please provide a user_id in the request body"])>>,
          calls |-> <<>>]
    ELSE [responses |-> <<>>, calls |-> createUser(client, userData)]

CreateRouteThen(newUser) ==
    Json(201, [success |-> TRUE, data |-> newUser, message |-> "User created successfully"])

CreateRouteCatchWithData(error) ==
    Json(statusCode(error), [success |-> FALSE,
                             error |-> errorMessage(error),
                             data |-> error.response,
                             message |-> "Failed to create user"])

CreateRouteCatch(error) ==
    Json(statusCode(error), [success |-> FALSE,
                             error |-> errorMessage(error),
                             message |-> "Failed to create user"])

CreateRouteResume(outcome) ==
    IF outcome.threw
    THEN <<CreateRouteCatch(outcome.value)>>
    ELSE <<CreateRouteThen(outcome.value)>>

\* app.use('*', ...): the 404 handler.
NotFoundHandler(q) ==
    Json(404, [success |-> FALSE,
               error |-> "Endpoint not found",
               message |-> "The requested endpoint " \o originalUrl(q.path) \o " does not exist",
               availableEndpoints |-> <<"GET /health", "GET /api/users/:userId/token",
                                        "POST /api/users", "GET /api-docs">>])

\* app.use((error, req, res, next) => ...): the error handler; the faulty
\* variant answers with the error's own status and text.
ErrorHandlerLeaks(error) ==
    Json(error.status, [success |-> FALSE,
                        error |-> error.message,
                        message |-> "Something went wrong on the server"])

ErrorHandler(error) ==
    Json(500, [success |-> FALSE,
               error |-> "Internal server error",
               message |-> "Something went wrong on the server"])

\* One inbound request through the middleware and the routes, up to the
\* first await: the responses written and the outbound calls issued.
Dispatch(client, q) ==
    LET parsed == ExpressJson(q.body)
    IN  IF parsed.threw
        THEN [responses |-> <<ErrorHandler(parsed.error)>>, calls |-> <<>>]
        ELSE IF MatchApiDocs(q)
        THEN [responses |-> <<ApiDocsHandler>>, calls |-> <<>>]
        ELSE IF MatchHealth(q)
        THEN [responses |-> <<HealthHandler>>, calls |-> <<>>]
        ELSE IF MatchTokenRoute(q)
        THEN LET param == ParamValue(q.path[3])
             IN  IF param.threw
                 THEN [responses |-> <<ErrorHandler([message |-> "Failed to decode param '"
                                                                  \o Join(q.path[3]) \o "'",
                                                     status |-> 400])>>,
                       calls |-> <<>>]
                 ELSE TokenRouteBegin(client, param.value)
        ELSE IF MatchCreateRoute(q)
        THEN CreateRouteBegin(client, parsed.body)
        ELSE [responses |-> <<NotFoundHandler(q)>>, calls |-> <<>>]

\* The handler's continuation once its awaited call has settled.
Continue(q, outcome) ==
    IF MatchTokenRoute(q)
    THEN TokenRouteResume(ParamValue(q.path[3]).value, outcome)
    ELSE CreateRouteResume(outcome)

----------------------------------------------------------------------------
\* The environment: configuration, inbound requests, the upstream's answers

\* A SENDBIRD_* variable: unset, set to the empty string, or set (the
\* application id also to a value that is no part of a host name).
EnvApplicationIds == {None, Some(""), Some("APPID"), Some("my app")}

EnvApiTokens == {None, Some(""), Some("secret")}

NoBody == [kind |-> "none", value |-> <<>>]

JsonBody(obj) == [kind |-> "json", value |-> obj]

\* The inbound requests of the model.  "U%202" is the user id "U 2"; "%U" is
\* not a percent-escape.
Inbound ==
    { [method |-> "GET", path |-> << <<"health">> >>, body |-> NoBody],
      [method |-> "GET", path |-> << <<"api-docs">> >>, body |-> NoBody],
      [method |-> "GET", path |-> << <<"nonexistent">> >>, body |-> NoBody],
      [method |-> "GET", path |-> << <<"api">>, <<"users">>, <<"token">> >>, body |-> NoBody],
      [method |-> "GET", path |-> << <<"api">>, <<"users">>, <<>>, <<"token">> >>, body |-> NoBody],
      [method |-> "GET", path |-> << <<"api">>, <<"users">>, <<"%", "U">>, <<"token">> >>, body |-> NoBody],
      [method |-> "GET", path |-> << <<"api">>, <<"users">>, <<"U", "%", "2", "0", "2">>, <<"token">> >>,
       body |-> NoBody],
      [method |-> "POST", path |-> << <<"api">>, <<"users">> >>, body |-> NoBody],
      [method |-> "POST", path |-> << <<"api">>, <<"users">> >>,
       body |-> [kind |-> "malformed", value |-> <<>>]],
      [method |-> "POST", path |-> << <<"api">>, <<"users">> >>,
       body |-> JsonBody([nickname |-> "John Doe"])],
      [method |-> "POST", path |-> << <<"api">>, <<"users">> >>,
       body |-> JsonBody([user_id |-> "", nickname |-> "John Doe"])],
      [method |-> "POST", path |-> << <<"api">>, <<"users">> >>,
       body |-> JsonBody([user_id |-> "john_doe"])],
      [method |-> "POST", path |-> << <<"api">>, <<"users">> >>,
       body |-> JsonBody([user_id |-> "john_doe", nickname |-> "John Doe",
                          issue_access_token |-> TRUE])] }

\* An axios error: with the upstream's response (a non-2xx status and its
\* body), or without one.
AxiosError(status, data) ==
    [response |-> Some([status |-> status, data |-> data]),
     message |-> "Request failed with status code " \o ToString(status)]

\* What the upstream answers with a 2xx to a call: a token for the token
\* call, the created user (with a token when one was asked for) otherwise.
UpstreamBody(call) ==
    IF call.url = "/v3/users"
    THEN IF "issue_access_token" \in DOMAIN call.data
         THEN [access_token |-> "tok123"] @@ call.data
         ELSE call.data
    ELSE [access_token |-> "tok123", expires_at |-> 1700000000]

\* A base URL that is no URL (the application id holds a space): building
\* the request throws before anything is sent.
InvalidBaseURL(baseURL) ==
    baseURL = "https://api-my app.sendbird.com"

\* The ways an awaited client call settles: it returns response.data, or it
\* throws.  origin records, for the properties only, where a thrown error
\* came from: the upstream call failing (a non-2xx answer, the transport),
\* or an exception raised locally while the request was being built.
Outcomes(call) ==
    IF InvalidBaseURL(call.baseURL)
    THEN { [threw |-> TRUE, origin |-> "local",
            value |-> [response |-> None, message |-> "Invalid URL"]] }
    ELSE { [threw |-> FALSE, origin |-> "none", value |-> UpstreamBody(call)],
           [threw |-> TRUE, origin |-> "upstream",
            value |-> AxiosError(400, [error |-> TRUE, message |-> "\"User\" not found.",
                                       code |-> 400201])],
           [threw |-> TRUE, origin |-> "upstream",
            value |-> AxiosError(429, [error |-> TRUE, message |-> ""])],
           [threw |-> TRUE, origin |-> "upstream", value |-> AxiosError(503, <<>>)],
           [threw |-> TRUE, origin |-> "upstream",
            value |-> [response |-> None, message |-> "connect ECONNREFUSED"]] }

----------------------------------------------------------------------------
\* The state machine

Init ==
    /\ processEnv \in [SENDBIRD_APPLICATION_ID : EnvApplicationIds,
                       SENDBIRD_API_TOKEN : EnvApiTokens]
    /\ proc = "start"
    /\ sendbirdClient = None
    /\ req = [r \in Reqs |-> None]
    /\ pc = [r \in Reqs |-> "idle"]
    /\ calls = [r \in Reqs |-> <<>>]
    /\ upstream = [r \in Reqs |-> None]
    /\ responses = [r \in Reqs |-> <<>>]

\* The module's top-level code: construct the client, exit(1) if that
\* throws, otherwise register the routes and listen.
Boot ==
    /\ proc = "start"
    /\ LET constructed == SendBirdClient(processEnv)
       IN  IF constructed.threw
           THEN proc' = "exited" /\ sendbirdClient' = None
           ELSE proc' = "listening" /\ sendbirdClient' = constructed.instance
    /\ UNCHANGED <<processEnv, req, pc, calls, upstream, responses>>

\* Request r arrives and runs through the pipeline up to its first await.
Handle(r, q) ==
    /\ proc = "listening"
    /\ pc[r] = "idle"
    /\ LET done == Dispatch(sendbirdClient[1], q)
       IN  /\ req' = [req EXCEPT ![r] = Some(q)]
           /\ responses' = [responses EXCEPT ![r] = done.responses]
           /\ calls' = [calls EXCEPT ![r] = done.calls]
           /\ pc' = [pc EXCEPT ![r] = IF done.calls = <<>> THEN "done" ELSE "awaiting"]
    /\ UNCHANGED <<processEnv, proc, sendbirdClient, upstream>>

\* The call r awaits settles.
UpstreamSettles(r) ==
    /\ pc[r] = "awaiting"
    /\ \E outcome \in Outcomes(calls[r][1]) :
           upstream' = [upstream EXCEPT ![r] = Some(outcome)]
    /\ pc' = [pc EXCEPT ![r] = "settled"]
    /\ UNCHANGED <<processEnv, proc, sendbirdClient, req, calls, responses>>

\* What the await of r's handler yields: the outcome of r's own call, held
\* in the handler's own scope; the faulty variant keeps it in one variable
\* shared by all requests, which holds the outcome of the latest of them.
AwaitedOutcomeShared(r) ==
    upstream[CHOOSE s \in Reqs :
                 upstream[s] # None /\ \A t \in Reqs : upstream[t] # None => t <= s][1]

AwaitedOutcome(r) ==
    upstream[r][1]

\* The handler of r runs on from its await to its end.
Resume(r) ==
    /\ pc[r] = "settled"
    /\ responses' = [responses EXCEPT ![r] = @ \o Continue(req[r][1], AwaitedOutcome(r))]
    /\ pc' = [pc EXCEPT ![r] = "done"]
    /\ UNCHANGED <<processEnv, proc, sendbirdClient, req, calls, upstream>>

Next ==
    \/ Boot
    \/ \E r \in Reqs : \E q \in Inbound : Handle(r, q)
    \/ \E r \in Reqs : UpstreamSettles(r)
    \/ \E r \in Reqs : Resume(r)

Spec == Init /\ [][Next]_vars

\* The event loop runs a handler's continuation once its promise settled.
FairSpec == Spec /\ \A r \in Reqs : WF_vars(Resume(r))

----------------------------------------------------------------------------
\* The properties

\* What a request is, read off its method, path and body alone.
IsCreateUser(q) ==
    q.method = "POST" /\ q.path = << <<"api">>, <<"users">> >>

IsTokenFetch(q) ==
    /\ q.method = "GET"
    /\ Len(q.path) \in {3, 4}
    /\ q.path[1] = <<"api">>
    /\ q.path[2] = <<"users">>
    /\ q.path[Len(q.path)] = <<"token">>

IsHealthOrDocs(q) ==
    q.path \in { << <<"health">> >>, << <<"api-docs">> >> }

\* The userId path segment of a token-fetch request is empty or not there.
UserIdSegmentMissing(q) ==
    IsTokenFetch(q) /\ (Len(q.path) = 3 \/ q.path[3] = <<>>)

\* The body parsed (or there was none) and has no user_id, or an empty one.
UserIdFieldMissing(q) ==
    /\ q.body.kind \in {"none", "json"}
    /\ \/ "user_id" \notin DOMAIN q.body.value
       \/ q.body.value.user_id = ""

\* The request gets as far as its upstream call.
PassesValidation(q) ==
    /\ q.body.kind # "malformed"
    /\ \/ IsCreateUser(q) /\ ~UserIdFieldMissing(q)
       \/ /\ IsTokenFetch(q)
          /\ ~UserIdSegmentMissing(q)
          /\ ~decodeURIComponent(q.path[3]).threw

Settled(r) ==
    upstream[r] # None

Failed(r) ==
    Settled(r) /\ upstream[r][1].threw

\* C1: a POST /api/users request whose body has no user_id, or an empty one,
\* is answered 400 with success=false and error "user_id is required", and
\* no createUser call is issued for it.
C1_MissingUserIdRejected ==
    \A r \in Reqs :
        (req[r] # None /\ IsCreateUser(req[r][1]) /\ UserIdFieldMissing(req[r][1]))
        => /\ pc[r] = "done"
           /\ Len(responses[r]) = 1
           /\ responses[r][1].status = 400
           /\ responses[r][1].body.success = FALSE
           /\ responses[r][1].body.error = "user_id is required"
           /\ calls[r] = <<>>
           /\ upstream[r] = None

C1_Witness ==
    \E r \in Reqs :
        /\ req[r] # None
        /\ IsCreateUser(req[r][1])
        /\ req[r][1].body.kind = "json"
        /\ "user_id" \in DOMAIN req[r][1].body.value
        /\ req[r][1].body.value.user_id = ""
        /\ responses[r] # <<>>
        /\ responses[r][1].status = 400

\* C2: a token-fetch request whose userId path segment is empty or missing
\* is answered 400 with success=false and error "User ID is required", and
\* no token call is issued for it.
C2_EmptyUserIdRejected ==
    \A r \in Reqs :
        (req[r] # None /\ UserIdSegmentMissing(req[r][1]))
        => /\ Len(responses[r]) = 1
           /\ responses[r][1].status = 400
           /\ responses[r][1].body.success = FALSE
           /\ responses[r][1].body.error = "User ID is required"
           /\ calls[r] = <<>>

\* C3: when the upstream call of a token-fetch or create-user request
\* fails, the response status is the upstream's status code if the error
\* carries one, and 500 if it carries none.
C3_UpstreamStatusPropagated ==
    \A r \in Reqs :
        (pc[r] = "done" /\ Failed(r) /\ upstream[r][1].origin = "upstream")
        => LET error == upstream[r][1].value
           IN  /\ Len(responses[r]) = 1
               /\ responses[r][1].status =
                      IF error.response # None THEN error.response[1].status ELSE 500

C3_Witness ==
    \E r \in Reqs :
        /\ pc[r] = "done"
        /\ Failed(r)
        /\ upstream[r][1].value.response # None
        /\ upstream[r][1].value.response[1].status = 400
        /\ responses[r][1].status = 400

\* The envelope: success is there, and exactly one of data and error is:
\* data when success is true, error when it is false.
EnvelopeShape(body) ==
    /\ "success" \in DOMAIN body
    /\ ("data" \in DOMAIN body) # ("error" \in DOMAIN body)
    /\ body.success = ("data" \in DOMAIN body)

C5_ExactlyOneResponse ==
    /\ [](\A r \in Reqs :
            /\ Len(responses[r]) <= 1
            /\ pc[r] = "done" => Len(responses[r]) = 1
            /\ pc[r] \in {"awaiting", "settled"} => responses[r] = <<>>)
    /\ \A r \in Reqs : Settled(r) ~> (pc[r] = "done" /\ Len(responses[r]) = 1)

C5_Witness ==
    \E r \in Reqs : pc[r] = "done" /\ Failed(r) /\ Len(responses[r]) = 1

\* C6: a request issues at most one upstream call: exactly one once it has
\* passed validation (and no further one after the call failed), none
\* otherwise (/health, unmatched routes, rejected requests).
C6_AtMostOneUpstreamCall ==
    \A r \in Reqs :
        /\ Len(calls[r]) <= 1
        /\ req[r] # None
           => Len(calls[r]) = IF PassesValidation(req[r][1]) THEN 1 ELSE 0

C6_Witness ==
    \E r \in Reqs :
        /\ pc[r] = "done"
        /\ Failed(r)
        /\ IsTokenFetch(req[r][1])
        /\ Len(calls[r]) = 1

\* The application identifier or the API credential is absent or empty.
BadConfiguration ==
    \/ processEnv.SENDBIRD_APPLICATION_ID \in {None, Some("")}
    \/ processEnv.SENDBIRD_API_TOKEN \in {None, Some("")}

\* C7: with the application identifier or the API credential absent or
\* empty, the process never listens (it exits at boot): no request is
\* served and no outbound call is made.
C7_MissingCredentialsAreFatal ==
    BadConfiguration
    => /\ proc \in {"start", "exited"}
       /\ sendbirdClient = None
       /\ \A r \in Reqs : req[r] = None /\ calls[r] = <<>> /\ responses[r] = <<>>

C7_Witness ==
    /\ processEnv.SENDBIRD_APPLICATION_ID = Some("APPID")
    /\ processEnv.SENDBIRD_API_TOKEN = Some("")
    /\ proc = "exited"

GenericFailure ==
    [status |-> 500,
     body |-> [success |-> FALSE,
               error |-> "Internal server error",
               message |-> "Something went wrong on the server"]]

\* A failure before any route handler runs: the body does not parse, or
\* the path parameter does not decode.
FailedBeforeHandler(q) ==
    \/ q.body.kind = "malformed"
    \/ IsTokenFetch(q) /\ ~UserIdSegmentMissing(q) /\ decodeURIComponent(q.path[3]).threw

\* An exception raised locally inside a route handler.
FailedInHandler(r) ==
    Failed(r) /\ upstream[r][1].origin = "local"

\* C9, as stated: any failure that is not an upstream-call failure is
\* answered with the fixed 500 response.
C9_NonUpstreamFailuresAreGeneric ==
    \A r \in Reqs :
        (pc[r] = "done" /\ (FailedBeforeHandler(req[r][1]) \/ FailedInHandler(r)))
        => responses[r] = <<GenericFailure>>

\* C9, amended: a failure before the route handler runs (a malformed body,
\* an undecodable path parameter) is answered with the fixed 500 response
\* and none of the failure's own text; an exception raised inside a route
\* handler is answered by that handler's catch block: status 500, error the
\* exception's message, message the route's fixed string.
C9_FailuresOutsideHandlersAreGeneric ==
    \A r \in Reqs :
        /\ (req[r] # None /\ FailedBeforeHandler(req[r][1]))
           => pc[r] = "done" /\ responses[r] = <<GenericFailure>>
        /\ (pc[r] = "done" /\ FailedInHandler(r))
           => responses[r] =
                << [status |-> 500,
                    body |-> [success |-> FALSE,
                              error |-> upstream[r][1].value.message,
                              message |-> IF IsTokenFetch(req[r][1])
                                          THEN "Failed to get user token"
                                          ELSE "Failed to create user"]] >>

C9_Witness ==
    \E r \in Reqs :
        /\ req[r] # None
        /\ req[r][1].body.kind = "malformed"
        /\ responses[r] = <<GenericFailure>>

\* C10: when the awaited call failed, error is the upstream body's message
\* if the body carries one (a non-empty one), else the error's own message;
\* message is the route's fixed string whatever the upstream said.
C10_ErrorFieldDerivation ==
    \A r \in Reqs :
        (pc[r] = "done" /\ Failed(r))
        => LET error == upstream[r][1].value
               carried == /\ error.response # None
                          /\ "message" \in DOMAIN error.response[1].data
                          /\ error.response[1].data.message # ""
           IN  /\ Len(responses[r]) = 1
               /\ responses[r][1].body.error =
                      IF carried THEN error.response[1].data.message ELSE error.message
               /\ responses[r][1].body.message =
                      IF IsTokenFetch(req[r][1])
                      THEN "Failed to get user token"
                      ELSE "Failed to create user"

C10_Witness ==
    \E r \in Reqs :
        /\ pc[r] = "done"
        /\ Failed(r)
        /\ responses[r][1].body.error = "\"User\" not found."
        /\ responses[r][1].body.message = "Failed to get user token"

\* The response to a request, from that request and the outcome of its own
\* call alone, given the client's configuration.
OwnResponses(r) ==
    LET q == req[r][1]
        begun == Dispatch(sendbirdClient[1], q)
    IN  IF pc[r] = "done" /\ Settled(r)
        THEN begun.responses \o Continue(q, upstream[r][1])
        ELSE begun.responses

\* C11: under any interleaving of the requests, the client's configuration
\* stays what the constructor made of the environment, every call carries
\* it, a step of one request leaves every other request's call, outcome and
\* response as they were, and a request's response is the one its own input
\* and the outcome of its own call give: two requests with the same input
\* and the same outcome are answered alike.
C11_RequestsAreIndependent ==
    /\ [](sendbirdClient # None
            => /\ sendbirdClient = SendBirdClient(processEnv).instance
               /\ \A r \in Reqs : \A i \in 1..Len(calls[r]) :
                      /\ calls[r][i].baseURL = sendbirdClient[1].baseURL
                      /\ calls[r][i].headers = sendbirdClient[1].headers)
    /\ [](\A r \in Reqs : req[r] # None => responses[r] = OwnResponses(r))
    /\ [](\A r, s \in Reqs :
            (pc[r] = "done" /\ pc[s] = "done" /\ req[r] = req[s] /\ upstream[r] = upstream[s])
            => responses[r] = responses[s])
    /\ [][/\ sendbirdClient # None => sendbirdClient' = sendbirdClient
          /\ processEnv' = processEnv
          /\ \A r, s \in Reqs :
                (r # s /\ pc'[r] # pc[r])
                => /\ req'[s] = req[s]
                   /\ calls'[s] = calls[s]
                   /\ upstream'[s] = upstream[s]
                   /\ responses'[s] = responses[s]]_vars

\* One request answered from its own outcome while another request with the
\* same input is in flight with a different outcome.
C11_Witness ==
    \E r, s \in Reqs :
        /\ r < s
        /\ pc[r] = "done"
        /\ pc[s] = "settled"
        /\ req[r] = req[s]
        /\ Settled(r)
        /\ upstream[r] # upstream[s]
        /\ responses[r] = OwnResponses(r)

====
